---- MODULE Spec2Model ----
(***************************************************************************)
(* A model of the crossword generator: generateCrossword (generator.ts)    *)
(* and the grid utilities it calls (utils.ts).                             *)
(*                                                                         *)
(* A word is a sequence of one-character strings.  A grid is a function    *)
(* from row indices 0..rows-1 to rows, a row a function from column        *)
(* indices 0..len-1 to cells (JavaScript arrays are 0-based).  A cell is   *)
(* a letter, Null (the value null) or Undefined (what reading an index     *)
(* past the end of a JavaScript array gives, and what a hole left by a     *)
(* write past the end of a row holds).                                     *)
(***************************************************************************)
EXTENDS Integers, Sequences, FiniteSets, TLC

Null == "null"
Undefined == "undefined"

Min(a, b) == IF a <= b THEN a ELSE b
Max(a, b) == IF a >= b THEN a ELSE b

(* String.prototype.toUpperCase on one ASCII letter. *)
toUpperCase(ch) ==
  CASE ch = "a" -> "A"
    [] ch = "b" -> "B"
    [] ch = "c" -> "C"
    [] ch = "d" -> "D"
    [] ch = "e" -> "E"
    [] ch = "f" -> "F"
    [] ch = "g" -> "G"
    [] ch = "h" -> "H"
    [] ch = "i" -> "I"
    [] ch = "j" -> "J"
    [] ch = "k" -> "K"
    [] ch = "l" -> "L"
    [] ch = "m" -> "M"
    [] ch = "n" -> "N"
    [] ch = "o" -> "O"
    [] ch = "p" -> "P"
    [] ch = "q" -> "Q"
    [] ch = "r" -> "R"
    [] ch = "s" -> "S"
    [] ch = "t" -> "T"
    [] ch = "u" -> "U"
    [] ch = "v" -> "V"
    [] ch = "w" -> "W"
    [] ch = "x" -> "X"
    [] ch = "y" -> "Y"
    [] ch = "z" -> "Z"
    [] OTHER -> ch

upperWord(w) == [i \in 1..Len(w) |-> toUpperCase(w[i])]

(* grid.length and grid[r].length *)
Rows(grid) == Cardinality(DOMAIN grid)
RowLen(grid, r) == Cardinality(DOMAIN grid[r])

(* grid[r][c] for an existing row r: Undefined past the end of the row *)
At(grid, r, c) == IF c \in DOMAIN grid[r] THEN grid[r][c] ELSE Undefined

(* Math.floor(Math.random() * x): every value it can take *)
RandBelow(x) == IF x > 0 THEN 0..(x - 1) ELSE x..0

createEmptyGrid(size) ==
  [r \in 0..(size - 1) |-> [c \in 0..(size - 1) |-> Null]]

(* shuffleArray: every permutation of the array is a possible outcome *)
shuffleArray(array) ==
  { [i \in 1..Len(array) |-> array[p[i]]] : p \in Permutations(1..Len(array)) }

(* slice0 with the slice left out: the whole array *)
slice0_all(array, end) == array

(* Array.prototype.slice(0, end) *)
slice0(array, end) ==
  LET n == Len(array)
      e == IF end < 0 THEN Max(n + end, 0) ELSE Min(end, n)
  IN  SubSeq(array, 1, e)

(* LengthOk with the upper bound left out *)
LengthOk_minOnly(w, options) == Len(w) >= options.minWordLength

(* selectRandomWords: the filter on the word length *)
LengthOk(w, options) ==
  Len(w) >= options.minWordLength /\ Len(w) <= options.maxWordLength

validWordsOf(wordList, options) ==
  LET F[k \in 0..Len(wordList)] ==
        IF k = 0 THEN << >>
        ELSE IF LengthOk(wordList[k], options)
             THEN Append(F[k - 1], wordList[k]) ELSE F[k - 1]
  IN  F[Len(wordList)]

(* selectRandomWords: the set of arrays it can return *)
selectRandomWords(wordList, options) ==
  { slice0(s, Min(options.wordCount, Len(s))) :
      s \in shuffleArray(validWordsOf(wordList, options)) }

(* placeWord raises a TypeError when it writes into a row that does not exist *)
placeWordThrows(grid, word, startRow, startCol, direction) ==
  \E i \in 0..(Len(upperWord(word)) - 1) :
     (IF direction = "vertical" THEN startRow + i ELSE startRow) \notin DOMAIN grid

(* The grid after placeWord's writes; a write past the end of a row grows the
   row, leaving Undefined in the holes. *)
placeWordGrid(grid, word, startRow, startCol, direction) ==
  LET up == upperWord(word)
      n  == Len(up)
      Written(r, c) ==
        IF direction = "vertical"
        THEN c = startCol /\ r >= startRow /\ r < startRow + n
        ELSE r = startRow /\ c >= startCol /\ c < startCol + n
      Letter(r, c) ==
        IF direction = "vertical" THEN up[r - startRow + 1] ELSE up[c - startCol + 1]
      LastCol(r) ==
        IF n = 0 THEN -1
        ELSE IF direction = "vertical"
             THEN (IF r >= startRow /\ r < startRow + n THEN startCol ELSE -1)
             ELSE (IF r = startRow THEN startCol + n - 1 ELSE -1)
  IN  [r \in DOMAIN grid |->
        [c \in 0..(Max(RowLen(grid, r), LastCol(r) + 1) - 1) |->
           IF Written(r, c) THEN Letter(r, c) ELSE At(grid, r, c)]]

(* The PlacedWord placeWord returns *)
placeWordRecord(word, startRow, startCol, direction) ==
  [ word      |-> upperWord(word),
    startRow  |-> startRow,
    startCol  |-> startCol,
    direction |-> direction,
    endRow    |-> IF direction = "vertical" THEN startRow + Len(word) - 1 ELSE startRow,
    endCol    |-> IF direction = "horizontal" THEN startCol + Len(word) - 1 ELSE startCol ]

(* isPartOfWord: is (row, col) on the run of a placed word *)
isPartOfWord(row, col, word) ==
  IF word.direction = "horizontal"
  THEN row = word.startRow /\ col >= word.startCol /\ col <= word.endCol
  ELSE col = word.startCol /\ row >= word.startRow /\ row <= word.endRow

(* grid[r]![c] as JavaScript evaluates it: a TypeError when row r is missing *)
Get(grid, r, c) == IF r \in DOMAIN grid THEN At(grid, r, c) ELSE "TypeError"

(* The first step of a sequence of checks that does not pass *)
FirstOutcome(steps) ==
  IF \A k \in 1..Len(steps) : steps[k] = "pass" THEN "pass"
  ELSE steps[CHOOSE k \in 1..Len(steps) :
               /\ steps[k] # "pass"
               /\ \A m \in 1..(k - 1) : steps[m] = "pass"]

(* if (guard && cell !== null) return false *)
EndCheck(guard, cell) ==
  IF ~guard THEN "pass"
  ELSE IF cell = "TypeError" THEN "TypeError"
  ELSE IF cell # Null THEN "false" ELSE "pass"

(* SideCheck without the rejection of a still empty cell (lines 193-195) *)
SideCheck_emptyPasses(guard, nbr, cell, currentLetter) ==
  IF ~guard THEN "pass"
  ELSE IF nbr = "TypeError" THEN "TypeError"
  ELSE IF nbr = Null THEN "pass"
  ELSE IF cell # Null /\ cell # currentLetter THEN "false" ELSE "pass"

(* if (guard && nbr !== null) { reject unless grid[row][col] is currentLetter } *)
SideCheck(guard, nbr, cell, currentLetter) ==
  IF ~guard THEN "pass"
  ELSE IF nbr = "TypeError" THEN "TypeError"
  ELSE IF nbr = Null THEN "pass"
  ELSE IF cell = currentLetter THEN "pass" ELSE "false"

(* checkSurroundingCells that takes every letter beside the word as a conflict *)
checkSurroundingCells_noNeighbour(grid, row, col, letter, direction, placedWords) ==
  LET nbrs == IF direction = "vertical"
              THEN { <<row, col - 1>>, <<row, col + 1>> }
              ELSE { <<row - 1, col>>, <<row + 1, col>> }
  IN  \A n \in nbrs :
        (n[1] >= 0 /\ n[1] < Rows(grid) /\ n[2] >= 0 /\ n[2] < RowLen(grid, 0))
          => At(grid, n[1], n[2]) = Null

(* checkSurroundingCells (strict level): every in-grid neighbour across the
   word's direction is empty or lies on the run of a recorded placed word *)
checkSurroundingCells(grid, row, col, letter, direction, placedWords) ==
  LET nbrs == IF direction = "vertical"
              THEN { <<row, col - 1>>, <<row, col + 1>> }
              ELSE { <<row - 1, col>>, <<row + 1, col>> }
  IN  \A n \in nbrs :
        (n[1] >= 0 /\ n[1] < Rows(grid) /\ n[2] >= 0 /\ n[2] < RowLen(grid, 0))
          => (At(grid, n[1], n[2]) # Null
                => \E k \in 1..Len(placedWords) : isPartOfWord(n[1], n[2], placedWords[k]))

(* checkWordBoundaries: "pass", "false" or "TypeError" *)
checkWordBoundariesOutcome(grid, word, startRow, startCol, endRow, endCol, direction) ==
  LET width == RowLen(grid, 0)
      height == Rows(grid)
      up == upperWord(word)
      hEnds == << EndCheck(startCol > 0, Get(grid, startRow, startCol - 1)),
                  EndCheck(endCol < width - 1, Get(grid, startRow, endCol + 1)) >>
      hSide(i) ==
        LET col == startCol + i
            row == startRow
        IN  << SideCheck(row > 0, Get(grid, row - 1, col), Get(grid, row, col), up[i + 1]),
               SideCheck(row < height - 1, Get(grid, row + 1, col), Get(grid, row, col), up[i + 1]) >>
      vEnds == << EndCheck(startRow > 0, Get(grid, startRow - 1, startCol)),
                  EndCheck(endRow < height - 1, Get(grid, endRow + 1, startCol)) >>
      vSide(i) ==
        LET row == startRow + i
            col == startCol
        IN  << SideCheck(col > 0, Get(grid, row, col - 1), Get(grid, row, col), up[i + 1]),
               SideCheck(col < width - 1, Get(grid, row, col + 1), Get(grid, row, col), up[i + 1]) >>
      n == IF direction = "horizontal" THEN endCol - startCol + 1 ELSE endRow - startRow + 1
      sides == [k \in 1..n |->
                  FirstOutcome(IF direction = "horizontal" THEN hSide(k - 1) ELSE vSide(k - 1))]
  IN  FirstOutcome((IF direction = "horizontal" THEN hEnds ELSE vEnds) \o sides)

(* sweepRequired that exempts only the lenient level *)
sweepRequired_unlessLenient(validationLevel) == validationLevel # "lenient"

(* if (validationLevel === 'strict') *)
sweepRequired(validationLevel) == validationLevel = "strict"

(* cellMismatch with the comparison left out *)
cellMismatch_never(cell, letter) == FALSE

(* if (cell !== null && cell !== letter) return false *)
cellMismatch(cell, letter) == cell # Null /\ cell # letter

(* canPlaceWord: "true", "false", or "TypeError" when it reads a missing row *)
canPlaceWordOutcome(grid, word, startRow, startCol, direction, placedWords, validationLevel) ==
  LET endRow == IF direction = "vertical" THEN startRow + Len(word) - 1 ELSE startRow
      endCol == IF direction = "horizontal" THEN startCol + Len(word) - 1 ELSE startCol
      up == upperWord(word)
      position(i) ==
        LET row == IF direction = "vertical" THEN startRow + i ELSE startRow
            col == IF direction = "horizontal" THEN startCol + i ELSE startCol
            cell == Get(grid, row, col)
        IN  IF cell = "TypeError" THEN "TypeError"
            ELSE IF cellMismatch(cell, up[i + 1]) THEN "false"
            ELSE IF sweepRequired(validationLevel)
                    /\ ~checkSurroundingCells(grid, row, col, up[i + 1], direction, placedWords)
                 THEN "false"
            ELSE "pass"
      cells == FirstOutcome([k \in 1..Len(word) |-> position(k - 1)])
  IN  IF endRow >= Rows(grid) THEN "false"
      ELSE IF Rows(grid) = 0 THEN "TypeError"
      ELSE IF endCol >= RowLen(grid, 0) THEN "false"
      ELSE IF cells # "pass" THEN cells
      ELSE LET b == checkWordBoundariesOutcome(grid, word, startRow, startCol,
                                               endRow, endCol, direction)
           IN  IF b = "pass" THEN "true" ELSE b

canPlaceWord(grid, word, startRow, startCol, direction, placedWords, validationLevel) ==
  canPlaceWordOutcome(grid, word, startRow, startCol, direction,
                      placedWords, validationLevel) = "true"

(* intersectionsWith with the two indices exchanged in the anchor *)
intersectionsWith_swapped(newWord, placedWord) ==
  LET up == upperWord(newWord)
      m  == Len(placedWord.word)
      cand(k) ==
        LET i == (k - 1) \div m
            j == (k - 1) % m
        IN  [ placedWord      |-> placedWord,
              newWordIndex    |-> i,
              placedWordIndex |-> j,
              row       |-> IF placedWord.direction = "horizontal"
                            THEN placedWord.startRow - j ELSE placedWord.startRow + i,
              col       |-> IF placedWord.direction = "horizontal"
                            THEN placedWord.startCol + i ELSE placedWord.startCol - j,
              direction |-> IF placedWord.direction = "horizontal"
                            THEN "vertical" ELSE "horizontal" ]
      all == [k \in 1..(Len(up) * m) |-> cand(k)]
  IN  SelectSeq(all, LAMBDA x : up[x.newWordIndex + 1] = placedWord.word[x.placedWordIndex + 1])

(* findIntersections: the candidates in the order the loops push them *)
intersectionsWith(newWord, placedWord) ==
  LET up == upperWord(newWord)
      m  == Len(placedWord.word)
      cand(k) ==
        LET i == (k - 1) \div m
            j == (k - 1) % m
        IN  [ placedWord      |-> placedWord,
              newWordIndex    |-> i,
              placedWordIndex |-> j,
              row       |-> IF placedWord.direction = "horizontal"
                            THEN placedWord.startRow - i ELSE placedWord.startRow + j,
              col       |-> IF placedWord.direction = "horizontal"
                            THEN placedWord.startCol + j ELSE placedWord.startCol - i,
              direction |-> IF placedWord.direction = "horizontal"
                            THEN "vertical" ELSE "horizontal" ]
      all == [k \in 1..(Len(up) * m) |-> cand(k)]
  IN  SelectSeq(all, LAMBDA x : up[x.newWordIndex + 1] = placedWord.word[x.placedWordIndex + 1])

findIntersections(newWord, placedWords) ==
  LET F[k \in 0..Len(placedWords)] ==
        IF k = 0 THEN << >>
        ELSE F[k - 1] \o intersectionsWith(newWord, placedWords[k])
  IN  F[Len(placedWords)]

SetMax(S) == CHOOSE x \in S : \A y \in S : y <= x
SetMin(S) == CHOOSE x \in S : \A y \in S : x <= y

calculateMinGridSize(placedWords) ==
  IF Len(placedWords) = 0 THEN [width |-> 0, height |-> 0]
  ELSE [ width  |-> SetMax({0} \cup { placedWords[k].endCol : k \in 1..Len(placedWords) }) + 1,
         height |-> SetMax({0} \cup { placedWords[k].endRow : k \in 1..Len(placedWords) }) + 1 ]

(* The cells the scans of trimGrid and adjustWordCoordinatesForTrimmedGrid
   find non-null (a hole reads undefined, which is not null) *)
NonNullCells(grid) ==
  { rc \in UNION { { <<r, c>> : c \in DOMAIN grid[r] } : r \in DOMAIN grid } :
      grid[rc[1]][rc[2]] # Null }

(* cropGrid with row < maxRow for row <= maxRow *)
cropGrid_short(grid, minRow, maxRow, minCol, maxCol) ==
  [r \in 0..(maxRow - minRow - 1) |->
    [c \in 0..(maxCol - minCol) |-> At(grid, minRow + r, minCol + c)]]

(* trimGrid lines 421-431: the rows minRow..maxRow, the columns minCol..maxCol *)
cropGrid(grid, minRow, maxRow, minCol, maxCol) ==
  [r \in 0..(maxRow - minRow) |->
    [c \in 0..(maxCol - minCol) |-> At(grid, minRow + r, minCol + c)]]

trimGrid(grid) ==
  IF Rows(grid) = 0 THEN grid
  ELSE LET cells == NonNullCells(grid)
       IN  IF cells = {} THEN << >>
           ELSE LET minRow == SetMin({ rc[1] : rc \in cells })
                    maxRow == SetMax({ rc[1] : rc \in cells })
                    minCol == SetMin({ rc[2] : rc \in cells })
                    maxCol == SetMax({ rc[2] : rc \in cells })
                IN  cropGrid(grid, minRow, maxRow, minCol, maxCol)

(* adjustWordCoordinatesForTrimmedGrid that translates the starts only *)
adjust_startsOnly(placedWords, originalGrid, trimmedGrid) ==
  IF Rows(originalGrid) = 0 \/ Rows(trimmedGrid) = 0 THEN placedWords
  ELSE LET cells == NonNullCells(originalGrid)
           minRow == SetMin({Rows(originalGrid)} \cup { rc[1] : rc \in cells })
           minCol == SetMin({RowLen(originalGrid, 0)} \cup { rc[2] : rc \in cells })
       IN  [k \in 1..Len(placedWords) |->
             [placedWords[k] EXCEPT !.startRow = @ - minRow, !.startCol = @ - minCol]]

(* adjustWordCoordinatesForTrimmedGrid with the translation left out *)
adjust_same(placedWords, originalGrid, trimmedGrid) == placedWords

adjustWordCoordinatesForTrimmedGrid(placedWords, originalGrid, trimmedGrid) ==
  IF Rows(originalGrid) = 0 \/ Rows(trimmedGrid) = 0 THEN placedWords
  ELSE LET cells == NonNullCells(originalGrid)
           minRow == SetMin({Rows(originalGrid)} \cup { rc[1] : rc \in cells })
           minCol == SetMin({RowLen(originalGrid, 0)} \cup { rc[2] : rc \in cells })
       IN  [k \in 1..Len(placedWords) |->
             [placedWords[k] EXCEPT !.startRow = @ - minRow, !.startCol = @ - minCol,
                                    !.endRow = @ - minRow, !.endCol = @ - minCol]]

(* wordsIntersect with the test of the directions inverted *)
wordsIntersect_sameDirection(word1, word2) ==
  IF word1.direction # word2.direction THEN FALSE
  ELSE /\ word1.startRow >= word2.startRow
       /\ word1.startRow <= word2.endRow
       /\ word2.startCol >= word1.startCol
       /\ word2.startCol <= word1.endCol

(* wordsIntersect that does not count a crossing on the first or last cell of
   a word *)
wordsIntersect_inner(word1, word2) ==
  IF word1.direction = word2.direction THEN FALSE
  ELSE IF word1.direction = "horizontal" /\ word2.direction = "vertical"
  THEN /\ word1.startRow > word2.startRow
       /\ word1.startRow < word2.endRow
       /\ word2.startCol > word1.startCol
       /\ word2.startCol < word1.endCol
  ELSE /\ word2.startRow > word1.startRow
       /\ word2.startRow < word1.endRow
       /\ word1.startCol > word2.startCol
       /\ word1.startCol < word2.endCol

wordsIntersect(word1, word2) ==
  IF word1.direction = word2.direction THEN FALSE
  ELSE IF word1.direction = "horizontal" /\ word2.direction = "vertical"
  THEN /\ word1.startRow >= word2.startRow
       /\ word1.startRow <= word2.endRow
       /\ word2.startCol >= word1.startCol
       /\ word2.startCol <= word1.endCol
  ELSE /\ word2.startRow >= word1.startRow
       /\ word2.startRow <= word1.endRow
       /\ word1.startCol >= word2.startCol
       /\ word1.startCol <= word2.endCol

countIntersections(placedWords) ==
  Cardinality({ ij \in (1..Len(placedWords)) \X (1..Len(placedWords)) :
                  ij[1] < ij[2] /\ wordsIntersect(placedWords[ij[1]], placedWords[ij[2]]) })

(***************************************************************************)
(* Scoring.  A score is kept exact as whole + num/den:                      *)
(*   whole = 100*words + 50*intersections,                                  *)
(*   num/den = 30*compactness + 20*efficiency.                              *)
(***************************************************************************)
calculateCompactness(result) ==
  IF Rows(result.grid) = 0 THEN [num |-> 0, den |-> 1]
  ELSE [ num |-> 100 * Cardinality(NonNullCells(result.grid)),
         den |-> Rows(result.grid) * RowLen(result.grid, 0) ]

SumLengths(placedWords) ==
  LET F[k \in 0..Len(placedWords)] ==
        IF k = 0 THEN 0 ELSE F[k - 1] + Len(placedWords[k].word)
  IN  F[Len(placedWords)]

calculateGridEfficiency(result) ==
  IF result.stats.gridSize.width = 0 \/ result.stats.gridSize.height = 0
  THEN [num |-> 0, den |-> 1]
  ELSE [ num |-> 100 * SumLengths(result.placedWords),
         den |-> result.stats.gridSize.width * result.stats.gridSize.height ]

ZeroScore == [whole |-> 0, num |-> 0, den |-> 1]

calculateScore(result) ==
  IF Len(result.placedWords) = 0 THEN ZeroScore
  ELSE LET c == calculateCompactness(result)
           e == calculateGridEfficiency(result)
       IN  [ whole |-> Len(result.placedWords) * 100 + result.stats.totalIntersections * 50,
             num   |-> 30 * c.num * e.den + 20 * e.num * c.den,
             den   |-> c.den * e.den ]

(* score > bestScore.  whole and num are multiples of 50; dividing both sides
   by 50 keeps the products of the cross-multiplication small. *)
ScoreGreater(s, b) ==
  ((s.whole - b.whole) \div 50) * s.den * b.den
     + (s.num \div 50) * b.den - (b.num \div 50) * s.den > 0

(***************************************************************************)
(* Inputs                                                                  *)
(***************************************************************************)
DEFAULT_OPTIONS ==
  [ wordCount |-> 10, maxAttempts |-> 1000, maxGridSize |-> 15,
    validationLevel |-> "normal", minWordLength |-> 3, maxWordLength |-> 15 ]

maxConsecutiveFailures == 20
evictAfterFailures == 5

(* The largest maxAttempts of the scenarios that run several attempts *)
MaxAttempts == 2

Levels == {"strict", "normal", "lenient"}

CatWords == << <<"C","A","T">>, <<"C","A","R">>, <<"A","R","T">> >>
AbcWords == << <<"A","B","C">> >>
(* a word, the same word extended by a letter, and a word crossing both *)
ExtWords == << <<"c","a","t">>, <<"C","A","T","S">>, <<"a","c","e">> >>
(* a word as long as the grid is wide, and a word crossing it *)
FullWords == << <<"W","O","R","D">>, <<"D","O","T">> >>
(* the empty string, and words of one to three letters *)
OddWords == << << >>, <<"A","B">>, <<"B","A","R">> >>
(* a word as long as the grid is wide, a word crossing it, and a word that
   shares its first letters *)
OverWords == << <<"W","O","R","D">>, <<"D","O","T">>, <<"X","W","O","R">> >>
(* three words with no letter in common *)
ApartWords == << <<"S","K","Y">>, <<"F","O","X">>, <<"H","E","N">> >>

ScenarioCat ==
  { [ words |-> CatWords,
      options |-> [DEFAULT_OPTIONS EXCEPT !.wordCount = 3, !.maxGridSize = 5,
                                          !.maxAttempts = a] ] : a \in 1..MaxAttempts }

ScenarioAbc ==
  { [ words |-> AbcWords, options |-> [DEFAULT_OPTIONS EXCEPT !.wordCount = 1] ] }

ScenarioExt ==
  { [ words |-> ExtWords,
      options |-> [DEFAULT_OPTIONS EXCEPT !.wordCount = wc, !.maxGridSize = 5,
                                          !.maxAttempts = 1, !.validationLevel = lv] ] :
      wc \in {2, 3}, lv \in Levels }

ScenarioFull ==
  { [ words |-> FullWords,
      options |-> [DEFAULT_OPTIONS EXCEPT !.wordCount = 2, !.maxGridSize = 4,
                                          !.maxAttempts = a, !.validationLevel = lv] ] :
      a \in 1..MaxAttempts, lv \in Levels }

ScenarioOdd ==
  { [ words |-> w,
      options |-> [DEFAULT_OPTIONS EXCEPT !.wordCount = wc, !.maxGridSize = n,
                                          !.maxAttempts = a, !.minWordLength = mn,
                                          !.maxWordLength = mx] ] :
      w \in {OddWords, << >>}, wc \in {-1, 0, 1, 2}, n \in {-1, 0, 1, 3},
      a \in {-1, 0, 1}, mn \in {-1, 0, 3}, mx \in {-1, 2, 15} }

ScenarioApart ==
  { [ words |-> ApartWords,
      options |-> [DEFAULT_OPTIONS EXCEPT !.wordCount = 3, !.maxGridSize = 4,
                                          !.maxAttempts = 1] ] }

ScenarioOver ==
  { [ words |-> OverWords,
      options |-> [DEFAULT_OPTIONS EXCEPT !.wordCount = 3, !.maxGridSize = 4,
                                          !.maxAttempts = 1] ] }

Scenarios ==
  ScenarioCat \cup ScenarioAbc \cup ScenarioExt \cup ScenarioFull \cup ScenarioOdd
    \cup ScenarioApart \cup ScenarioOver

(***************************************************************************)
(* State of one call of generateCrossword                                  *)
(***************************************************************************)
VARIABLES
  words,                (* the words argument *)
  config,               (* DEFAULT_OPTIONS overridden by the options argument *)
  pc,                   (* position in generateCrossword *)
  attempt,              (* the for-loop counter *)
  bestResult,           (* << >> for null, else <<result>> *)
  bestScore,
  state,                (* << >> or <<GenerationState>> of the running attempt *)
  maxWordsToPlace,      (* locals of placeRemainingWords *)
  wordsPlaced,
  consecutiveFailures,
  returned,             (* << >> or <<the CrosswordResult returned>> *)
  executed,             (* history: what each attempt so far gave, <<result>> or
                           << >> when it threw; executed[k] is attempt number k *)
  failureLog,           (* history of the running attempt: tally[k] counts the
                           iterations in which availableWords[k] was drawn and
                           tryPlaceWord returned false; evicted holds the tally of
                           every word spliced out of the pool by line 207; pool is
                           availableWords.length at the entry of the loop and
                           iterations counts the runs of the loop body *)
  pure                  (* the argument and results of a function applied on its own *)

vars == << words, config, pc, attempt, bestResult, bestScore, state,
           maxWordsToPlace, wordsPlaced, consecutiveFailures, returned, executed, failureLog, pure >>

(* no word has failed, none was evicted *)
NoFailures == [ tally |-> << >>, evicted |-> {}, pool |-> 0, iterations |-> 0 ]

(* clampMaxWordLength with the clamp left out *)
clamp_none(options) == options

(* fallbackOptions that keeps the caller's wordCount *)
fallbackOptions_keep(options) == options

(* line 48: config.maxWordLength = Math.min(config.maxWordLength, config.maxGridSize) *)
clampMaxWordLength(options) ==
  [options EXCEPT !.maxWordLength = Min(options.maxWordLength, options.maxGridSize)]

(* line 75: { ...config, wordCount: 1 } *)
fallbackOptions(options) == [options EXCEPT !.wordCount = 1]

(* generateCrossword lines 45-51 *)
Init ==
  \E sc \in Scenarios :
    /\ words = sc.words
    /\ config = clampMaxWordLength(sc.options)
    /\ pc = "loop"
    /\ attempt = 0
    /\ bestResult = << >>
    /\ bestScore = ZeroScore
    /\ state = << >>
    /\ maxWordsToPlace = 0
    /\ wordsPlaced = 0
    /\ consecutiveFailures = 0
    /\ returned = << >>
    /\ executed = << >>
    /\ failureLog = NoFailures
    /\ pure = << >>

(* catch (error) { continue; } : the attempt is dropped, the loop goes on *)
CatchAndContinue ==
  /\ attempt' = attempt + 1
  /\ pc' = "loop"
  /\ state' = << >>
  /\ executed' = Append(executed, << >>)
  /\ failureLog' = NoFailures
  /\ UNCHANGED << words, config, bestResult, bestScore, maxWordsToPlace,
                  wordsPlaced, consecutiveFailures, returned, pure >>

(* attemptGeneration lines 119-124: no word selected, the attempt throws *)
AttemptNoWords ==
  /\ pc = "loop"
  /\ attempt < config.maxAttempts
  /\ \E selectedWords \in selectRandomWords(words, config) :
       \E shuffledWords \in shuffleArray(selectedWords) :
          Len(shuffledWords) = 0
  /\ CatchAndContinue

(* attemptGeneration lines 119-133: select, shuffle, create the state *)
AttemptSelect ==
  /\ pc = "loop"
  /\ attempt < config.maxAttempts
  /\ \E selectedWords \in selectRandomWords(words, config) :
       \E shuffledWords \in shuffleArray(selectedWords) :
          /\ Len(shuffledWords) # 0
          /\ state' = << [ grid |-> createEmptyGrid(config.maxGridSize),
                           placedWords |-> << >>,
                           availableWords |-> shuffledWords,
                           gridSize |-> config.maxGridSize,
                           attempts |-> attempt + 1 ] >>
  /\ pc' = "seed"
  /\ UNCHANGED << words, config, attempt, bestResult, bestScore, maxWordsToPlace,
                  wordsPlaced, consecutiveFailures, returned, executed, failureLog, pure >>

(* The anchors and directions placeFirstWord can draw for firstWord *)
firstWordAnchors(firstWord, maxGridSize) ==
  LET centerOffset == maxGridSize \div 4
      maxStart == maxGridSize - Len(firstWord) - centerOffset
  IN  { [ direction |-> d,
          startRow  |-> IF d = "horizontal" THEN centerOffset + other ELSE centerOffset + along,
          startCol  |-> IF d = "vertical" THEN centerOffset + other ELSE centerOffset + along ] :
          d \in {"horizontal", "vertical"},
          along \in RandBelow(Max(1, maxStart - centerOffset)),
          other \in RandBelow(maxGridSize - centerOffset * 2) }

(* placeFirstWord, and the entry of placeRemainingWords (lines 186-189) *)
PlaceFirstWord ==
  /\ pc = "seed"
  /\ LET st == state[1]
         firstWord == Head(st.availableWords)
     IN  \E a \in firstWordAnchors(firstWord, config.maxGridSize) :
           /\ ~placeWordThrows(st.grid, firstWord, a.startRow, a.startCol, a.direction)
           /\ state' = << [st EXCEPT
                 !.grid = placeWordGrid(st.grid, firstWord, a.startRow, a.startCol, a.direction),
                 !.placedWords = << placeWordRecord(firstWord, a.startRow, a.startCol, a.direction) >>,
                 !.availableWords = Tail(st.availableWords)] >>
           /\ maxWordsToPlace' = Min(config.wordCount - 1, Len(st.availableWords) - 1)
           /\ failureLog' = [ tally |-> [k \in 1..(Len(st.availableWords) - 1) |-> 0],
                              evicted |-> {},
                              pool |-> Len(st.availableWords) - 1,
                              iterations |-> 0 ]
  /\ wordsPlaced' = 0
  /\ consecutiveFailures' = 0
  /\ pc' = "placing"
  /\ UNCHANGED << words, config, attempt, bestResult, bestScore, returned, executed, pure >>

(* placeFirstWord: placeWord writes below the last row and raises *)
PlaceFirstWordThrows ==
  /\ pc = "seed"
  /\ LET st == state[1]
         firstWord == Head(st.availableWords)
     IN  \E a \in firstWordAnchors(firstWord, config.maxGridSize) :
           placeWordThrows(st.grid, firstWord, a.startRow, a.startCol, a.direction)
  /\ CatchAndContinue

(* while (wordsPlaced < maxWordsToPlace && availableWords.length > 0 &&
          consecutiveFailures < maxConsecutiveFailures) *)
LoopCondition ==
  /\ wordsPlaced < maxWordsToPlace
  /\ Len(state[1].availableWords) > 0
  /\ consecutiveFailures < maxConsecutiveFailures

RemoveAt(seq, k) == SubSeq(seq, 1, k - 1) \o SubSeq(seq, k + 1, Len(seq))

(* tryPlaceWord: the candidates that pass its bounds filter (lines 231-236) *)
candidatesInBounds(st, word) ==
  LET xs == findIntersections(word, st.placedWords)
  IN  { xs[k] : k \in { m \in 1..Len(xs) :
          /\ ~(xs[m].row < 0 \/ xs[m].col < 0)
          /\ LET endRow == IF xs[m].direction = "vertical"
                           THEN xs[m].row + Len(word) - 1 ELSE xs[m].row
                 endCol == IF xs[m].direction = "horizontal"
                           THEN xs[m].col + Len(word) - 1 ELSE xs[m].col
             IN  ~(endRow >= st.gridSize \/ endCol >= st.gridSize) } }

(* tryPlaceWord places the first candidate of the shuffled list that canPlaceWord
   accepts: under some shuffle, any accepted candidate *)
acceptedCandidates(st, word, validationLevel) ==
  { x \in candidatesInBounds(st, word) :
      canPlaceWord(st.grid, word, x.row, x.col, x.direction, st.placedWords, validationLevel) }

(* canPlaceWord raises on a candidate: tryPlaceWord propagates it *)
tryPlaceWordThrows(st, word, validationLevel) ==
  \E x \in candidatesInBounds(st, word) :
     \/ canPlaceWordOutcome(st.grid, word, x.row, x.col, x.direction,
                            st.placedWords, validationLevel) = "TypeError"
     \/ /\ canPlaceWord(st.grid, word, x.row, x.col, x.direction,
                        st.placedWords, validationLevel)
        /\ placeWordThrows(st.grid, word, x.row, x.col, x.direction)

(* placeRemainingWords: one iteration in which tryPlaceWord returns true *)
PlaceWordSucceeds ==
  /\ pc = "placing"
  /\ LoopCondition
  /\ LET st == state[1]
     IN  \E wordIndex \in 1..Len(st.availableWords) :
           LET word == st.availableWords[wordIndex]
           IN  \E x \in acceptedCandidates(st, word, config.validationLevel) :
                 /\ ~placeWordThrows(st.grid, word, x.row, x.col, x.direction)
                 /\ state' = << [st EXCEPT
                       !.grid = placeWordGrid(st.grid, word, x.row, x.col, x.direction),
                       !.placedWords = Append(st.placedWords,
                                              placeWordRecord(word, x.row, x.col, x.direction)),
                       !.availableWords = RemoveAt(st.availableWords, wordIndex)] >>
                 /\ failureLog' = [failureLog EXCEPT !.tally = RemoveAt(@, wordIndex),
                                                       !.iterations = @ + 1]
  /\ wordsPlaced' = wordsPlaced + 1
  /\ consecutiveFailures' = 0
  /\ UNCHANGED << words, config, pc, attempt, bestResult, bestScore,
                  maxWordsToPlace, returned, executed, pure >>

(* PlaceWordFails without lines 206-209: a failing word is never evicted *)
PlaceWordFails_noEvict ==
  /\ pc = "placing"
  /\ LoopCondition
  /\ LET st == state[1]
     IN  \E wordIndex \in 1..Len(st.availableWords) :
           LET word == st.availableWords[wordIndex]
           IN  IF tryPlaceWordThrows(st, word, config.validationLevel)
               THEN CatchAndContinue
               ELSE /\ acceptedCandidates(st, word, config.validationLevel) = {}
                    /\ state' = state
                    /\ consecutiveFailures' = consecutiveFailures + 1
                    /\ failureLog' = [failureLog EXCEPT !.tally[wordIndex] = @ + 1,
                                                          !.iterations = @ + 1]
                    /\ UNCHANGED << words, config, pc, attempt, bestResult, bestScore,
                                    maxWordsToPlace, wordsPlaced, returned, executed, pure >>

(* PlaceWordFails without line 208: an eviction leaves the counter as it is *)
PlaceWordFails_noReset ==
  /\ pc = "placing"
  /\ LoopCondition
  /\ LET st == state[1]
     IN  \E wordIndex \in 1..Len(st.availableWords) :
           LET word == st.availableWords[wordIndex]
           IN  IF tryPlaceWordThrows(st, word, config.validationLevel)
               THEN CatchAndContinue
               ELSE /\ acceptedCandidates(st, word, config.validationLevel) = {}
                    /\ IF consecutiveFailures + 1 >= evictAfterFailures
                       THEN /\ state' = << [st EXCEPT !.availableWords =
                                              RemoveAt(st.availableWords, wordIndex)] >>
                            /\ consecutiveFailures' = consecutiveFailures + 1
                            /\ failureLog' =
                                 [failureLog EXCEPT
                                    !.tally = RemoveAt(@, wordIndex),
                                    !.evicted = @ \cup {failureLog.tally[wordIndex] + 1},
                                    !.iterations = @ + 1]
                       ELSE /\ state' = state
                            /\ consecutiveFailures' = consecutiveFailures + 1
                            /\ failureLog' = [failureLog EXCEPT !.tally[wordIndex] = @ + 1,
                                                                  !.iterations = @ + 1]
                    /\ UNCHANGED << words, config, pc, attempt, bestResult, bestScore,
                                    maxWordsToPlace, wordsPlaced, returned, executed, pure >>

(* placeRemainingWords: one iteration in which tryPlaceWord returns false (or
   raises, which ends the attempt) *)
PlaceWordFails ==
  /\ pc = "placing"
  /\ LoopCondition
  /\ LET st == state[1]
     IN  \E wordIndex \in 1..Len(st.availableWords) :
           LET word == st.availableWords[wordIndex]
           IN  IF tryPlaceWordThrows(st, word, config.validationLevel)
               THEN CatchAndContinue
               ELSE /\ acceptedCandidates(st, word, config.validationLevel) = {}
                    /\ IF consecutiveFailures + 1 >= evictAfterFailures
                       THEN /\ state' = << [st EXCEPT !.availableWords =
                                              RemoveAt(st.availableWords, wordIndex)] >>
                            /\ consecutiveFailures' = 0
                            /\ failureLog' =
                                 [failureLog EXCEPT
                                    !.tally = RemoveAt(@, wordIndex),
                                    !.evicted = @ \cup {failureLog.tally[wordIndex] + 1},
                                    !.iterations = @ + 1]
                       ELSE /\ state' = state
                            /\ consecutiveFailures' = consecutiveFailures + 1
                            /\ failureLog' = [failureLog EXCEPT !.tally[wordIndex] = @ + 1,
                                                                  !.iterations = @ + 1]
                    /\ UNCHANGED << words, config, pc, attempt, bestResult, bestScore,
                                    maxWordsToPlace, wordsPlaced, returned, executed, pure >>

(* attemptResult without lines 141-146: the working grid and its words as they are *)
attemptResult_untrimmed(st) ==
  [ grid |-> st.grid,
    placedWords |-> st.placedWords,
    stats |-> [ wordsUsed |-> Len(st.placedWords),
                gridSize |-> calculateMinGridSize(st.placedWords),
                totalIntersections |-> countIntersections(st.placedWords),
                attempts |-> st.attempts ] ]

(* attemptGeneration lines 141-158: the result of a finished attempt *)
attemptResult(st) ==
  LET trimmedGrid == trimGrid(st.grid)
      adjustedWords == adjustWordCoordinatesForTrimmedGrid(st.placedWords, st.grid, trimmedGrid)
  IN  [ grid |-> trimmedGrid,
        placedWords |-> adjustedWords,
        stats |-> [ wordsUsed |-> Len(adjustedWords),
                    gridSize |-> calculateMinGridSize(adjustedWords),
                    totalIntersections |-> countIntersections(adjustedWords),
                    attempts |-> st.attempts ] ]

(* EndAttempt without the break of line 65: the loop always goes on *)
EndAttempt_noBreak ==
  /\ pc = "placing"
  /\ ~LoopCondition
  /\ LET result == attemptResult(state[1])
         score == calculateScore(result)
     IN  IF ScoreGreater(score, bestScore)
         THEN bestScore' = score /\ bestResult' = << result >>
         ELSE UNCHANGED << bestScore, bestResult >>
  /\ pc' = "loop"
  /\ attempt' = attempt + 1
  /\ state' = << >>
  /\ executed' = Append(executed, << attemptResult(state[1]) >>)
  /\ failureLog' = NoFailures
  /\ UNCHANGED << words, config, maxWordsToPlace, wordsPlaced, consecutiveFailures, returned, pure >>

(* EndAttempt without the comparison of line 60: the last result is kept *)
EndAttempt_keepLast ==
  /\ pc = "placing"
  /\ ~LoopCondition
  /\ LET result == attemptResult(state[1])
         score == calculateScore(result)
     IN  /\ bestScore' = score
         /\ bestResult' = << result >>
         /\ IF Len(result.placedWords) >= config.wordCount
            THEN pc' = "after" /\ attempt' = attempt
            ELSE pc' = "loop" /\ attempt' = attempt + 1
  /\ state' = << >>
  /\ executed' = Append(executed, << attemptResult(state[1]) >>)
  /\ failureLog' = NoFailures
  /\ UNCHANGED << words, config, maxWordsToPlace, wordsPlaced, consecutiveFailures, returned, pure >>

(* The loop of placeRemainingWords ends; attemptGeneration returns; generateCrossword
   lines 56-66 score the result and keep it if it is the best so far *)
EndAttempt ==
  /\ pc = "placing"
  /\ ~LoopCondition
  /\ LET result == attemptResult(state[1])
         score == calculateScore(result)
     IN  IF ScoreGreater(score, bestScore)
         THEN /\ bestScore' = score
              /\ bestResult' = << result >>
              /\ IF Len(result.placedWords) >= config.wordCount
                 THEN pc' = "after" /\ attempt' = attempt
                 ELSE pc' = "loop" /\ attempt' = attempt + 1
         ELSE /\ UNCHANGED << bestScore, bestResult >>
              /\ pc' = "loop"
              /\ attempt' = attempt + 1
  /\ state' = << >>
  /\ executed' = Append(executed, << attemptResult(state[1]) >>)
  /\ failureLog' = NoFailures
  /\ UNCHANGED << words, config, maxWordsToPlace, wordsPlaced, consecutiveFailures, returned, pure >>

(* The for loop is over: by break, or attempt < maxAttempts is false *)
AfterLoop == pc = "after" \/ (pc = "loop" /\ ~(attempt < config.maxAttempts))

(* line 107 *)
ReturnBest ==
  /\ AfterLoop
  /\ bestResult # << >>
  /\ returned' = bestResult
  /\ pc' = "returned"
  /\ UNCHANGED << words, config, attempt, bestResult, bestScore, state,
                  maxWordsToPlace, wordsPlaced, consecutiveFailures, executed, failureLog, pure >>

(* lines 78-93: the result built from one selected word *)
fallbackResult(selectedWords, maxAttempts, maxGridSize) ==
  LET grid == createEmptyGrid(Min(IF Len(selectedWords[1]) # 0 THEN Len(selectedWords[1]) ELSE 5,
                                  maxGridSize))
      placed == placeWordGrid(grid, selectedWords[1], 0, 0, "horizontal")
      placedWord == placeWordRecord(selectedWords[1], 0, 0, "horizontal")
      trimmedGrid == trimGrid(placed)
      adjustedWords == adjustWordCoordinatesForTrimmedGrid(<< placedWord >>, placed, trimmedGrid)
  IN  [ grid |-> trimmedGrid,
        placedWords |-> adjustedWords,
        stats |-> [ wordsUsed |-> 1,
                    gridSize |-> calculateMinGridSize(adjustedWords),
                    totalIntersections |-> 0,
                    attempts |-> maxAttempts ] ]

fallbackThrows(selectedWords, maxGridSize) ==
  placeWordThrows(createEmptyGrid(Min(IF Len(selectedWords[1]) # 0
                                      THEN Len(selectedWords[1]) ELSE 5, maxGridSize)),
                  selectedWords[1], 0, 0, "horizontal")

(* lines 95-104 *)
emptyResult(maxAttempts) ==
  [ grid |-> << >>,
    placedWords |-> << >>,
    stats |-> [ wordsUsed |-> 0,
                gridSize |-> [width |-> 0, height |-> 0],
                totalIntersections |-> 0,
                attempts |-> maxAttempts ] ]

(* lines 73-93: no attempt gave a result and one word can be selected *)
Fallback ==
  /\ AfterLoop
  /\ bestResult = << >>
  /\ \E selectedWords \in selectRandomWords(words, fallbackOptions(config)) :
       /\ Len(selectedWords) > 0
       /\ IF fallbackThrows(selectedWords, config.maxGridSize)
          THEN pc' = "error" /\ returned' = returned
          ELSE /\ pc' = "returned"
               /\ returned' = << fallbackResult(selectedWords, config.maxAttempts,
                                                config.maxGridSize) >>
  /\ UNCHANGED << words, config, attempt, bestResult, bestScore, state,
                  maxWordsToPlace, wordsPlaced, consecutiveFailures, executed, failureLog, pure >>

(* lines 73-77, 95-104: no attempt gave a result and no word can be selected *)
ReturnEmpty ==
  /\ AfterLoop
  /\ bestResult = << >>
  /\ \E selectedWords \in selectRandomWords(words, fallbackOptions(config)) :
       Len(selectedWords) = 0
  /\ returned' = << emptyResult(config.maxAttempts) >>
  /\ pc' = "returned"
  /\ UNCHANGED << words, config, attempt, bestResult, bestScore, state,
                  maxWordsToPlace, wordsPlaced, consecutiveFailures, executed, failureLog, pure >>

Next ==
  \/ AttemptNoWords
  \/ AttemptSelect
  \/ PlaceFirstWord
  \/ PlaceFirstWordThrows
  \/ PlaceWordSucceeds
  \/ PlaceWordFails
  \/ EndAttempt
  \/ ReturnBest
  \/ Fallback
  \/ ReturnEmpty

Spec == Init /\ [][Next]_vars

(***************************************************************************)
(* trimGrid applied on its own, to every small grid                        *)
(***************************************************************************)
MaxTrimRows == 3
MaxTrimCols == 3

(* rectangular grids, and grids whose rows differ in length *)
RectGrids ==
  UNION { [ (0..(h - 1)) -> [ (0..(w - 1)) -> {Null, "A"} ] ] :
            h \in 0..MaxTrimRows, w \in 0..MaxTrimCols }

RaggedGrids ==
  UNION { [ (0..(h - 1)) -> UNION { [ (0..(w - 1)) -> {Null, "A", "B"} ] : w \in 0..2 } ] :
            h \in 1..2 }

TrimInit ==
  /\ pure \in { [ stage |-> "input", grid |-> g, once |-> << >>, twice |-> << >> ] :
                  g \in RectGrids \cup RaggedGrids }
  /\ words = << >>
  /\ config = DEFAULT_OPTIONS
  /\ pc = "idle"
  /\ attempt = 0
  /\ bestResult = << >>
  /\ bestScore = ZeroScore
  /\ state = << >>
  /\ maxWordsToPlace = 0
  /\ wordsPlaced = 0
  /\ consecutiveFailures = 0
  /\ returned = << >>
  /\ executed = << >>
  /\ failureLog = NoFailures

engineVars == << words, config, pc, attempt, bestResult, bestScore, state,
                 maxWordsToPlace, wordsPlaced, consecutiveFailures, returned, executed,
                 failureLog >>

TrimOnce ==
  /\ pure.stage = "input"
  /\ pure' = [pure EXCEPT !.stage = "once", !.once = trimGrid(pure.grid)]
  /\ UNCHANGED engineVars

TrimTwice ==
  /\ pure.stage = "once"
  /\ pure' = [pure EXCEPT !.stage = "twice", !.twice = trimGrid(pure.once)]
  /\ UNCHANGED engineVars

TrimNext == TrimOnce \/ TrimTwice

SpecTrim == TrimInit /\ [][TrimNext]_vars

(***************************************************************************)
(* canPlaceWord applied on its own (it is exported for direct use), to      *)
(* small boards at every validation level                                   *)
(***************************************************************************)
MaxValGrid == 3

ValPlacedWords == { <<"A", "B">>, <<"B", "A">> }
ValNewWords == { <<"a", "b">>, <<"B">> }
Directions == {"horizontal", "vertical"}

(* the runs of a word that lie inside a size x size grid *)
RunsInside(word, size) ==
  { pl \in [ word : {word}, startRow : 0..(size - 1), startCol : 0..(size - 1),
             direction : Directions ] :
      IF pl.direction = "vertical" THEN pl.startRow + Len(word) <= size
                                   ELSE pl.startCol + Len(word) <= size }

BoardAfter(board, pl) ==
  [ grid |-> placeWordGrid(board.grid, pl.word, pl.startRow, pl.startCol, pl.direction),
    placedWords |-> Append(board.placedWords,
                           placeWordRecord(pl.word, pl.startRow, pl.startCol, pl.direction)) ]

(* no letter of the run replaces a different letter *)
FitsLetters(grid, pl) ==
  \A i \in 0..(Len(pl.word) - 1) :
    LET cell == Get(grid, IF pl.direction = "vertical" THEN pl.startRow + i ELSE pl.startRow,
                          IF pl.direction = "horizontal" THEN pl.startCol + i ELSE pl.startCol)
    IN  cell = Null \/ cell = pl.word[i + 1]

(* boards made by placeWord on an empty grid: no word, AB, or AB and a second
   word whose letters fit *)
ValBoards ==
  LET empty == [ grid |-> createEmptyGrid(MaxValGrid), placedWords |-> << >> ]
      one == { BoardAfter(empty, pl) : pl \in RunsInside(<<"A", "B">>, MaxValGrid) }
      two == UNION { { BoardAfter(b, pl) :
                         pl \in { q \in UNION { RunsInside(w, MaxValGrid) : w \in ValPlacedWords } :
                                    FitsLetters(b.grid, q) } } : b \in one }
  IN  {empty} \cup one \cup two

ValidatorInit ==
  /\ pure \in { [ stage |-> "call", grid |-> b.grid,
                   placedWords |-> IF recorded THEN b.placedWords ELSE << >>, word |-> w,
                   startRow |-> r, startCol |-> c, direction |-> d,
                   strict |-> "none", normal |-> "none", lenient |-> "none" ] :
                   b \in ValBoards, recorded \in BOOLEAN, w \in ValNewWords,
                   r \in (-1)..(MaxValGrid - 1), c \in (-1)..(MaxValGrid - 1), d \in Directions }
  /\ words = << >>
  /\ config = DEFAULT_OPTIONS
  /\ pc = "idle"
  /\ attempt = 0
  /\ bestResult = << >>
  /\ bestScore = ZeroScore
  /\ state = << >>
  /\ maxWordsToPlace = 0
  /\ wordsPlaced = 0
  /\ consecutiveFailures = 0
  /\ returned = << >>
  /\ executed = << >>
  /\ failureLog = NoFailures

(* the same call of canPlaceWord at each of the three levels *)
ValidateCall ==
  /\ pure.stage = "call"
  /\ LET outcome(level) ==
           canPlaceWordOutcome(pure.grid, pure.word, pure.startRow, pure.startCol,
                               pure.direction, pure.placedWords, level)
     IN  pure' = [pure EXCEPT !.stage = "validated", !.strict = outcome("strict"),
                              !.normal = outcome("normal"), !.lenient = outcome("lenient")]
  /\ UNCHANGED engineVars

SpecValidator == ValidatorInit /\ [][ValidateCall]_vars

(***************************************************************************)
(* findIntersections applied on its own                                     *)
(***************************************************************************)
MaxFindAnchor == 2

FindPlacedWords == { <<"a", "b">>, <<"B", "A", "A">> }
FindNewWords == { << >>, <<"c">>, <<"a", "B">>, <<"b", "a", "b">> }

(* the PlacedWords placeWord returns for the words above *)
FindRecords ==
  { placeWordRecord(w, r, c, d) :
      w \in FindPlacedWords, r \in 0..MaxFindAnchor, c \in 0..MaxFindAnchor, d \in Directions }

FinderInit ==
  /\ pure \in { [ stage |-> "call", newWord |-> w, placedWords |-> pw, found |-> << >> ] :
                  w \in FindNewWords,
                  pw \in {<< >>} \cup { <<p>> : p \in FindRecords }
                                \cup { <<p, q>> : p \in FindRecords, q \in FindRecords } }
  /\ words = << >>
  /\ config = DEFAULT_OPTIONS
  /\ pc = "idle"
  /\ attempt = 0
  /\ bestResult = << >>
  /\ bestScore = ZeroScore
  /\ state = << >>
  /\ maxWordsToPlace = 0
  /\ wordsPlaced = 0
  /\ consecutiveFailures = 0
  /\ returned = << >>
  /\ executed = << >>
  /\ failureLog = NoFailures

FindCall ==
  /\ pure.stage = "call"
  /\ pure' = [pure EXCEPT !.stage = "found",
                          !.found = findIntersections(pure.newWord, pure.placedWords)]
  /\ UNCHANGED engineVars

SpecFinder == FinderInit /\ [][FindCall]_vars

(***************************************************************************)
(* Properties                                                              *)
(***************************************************************************)
RowAt(w, i) == IF w.direction = "vertical" THEN w.startRow + i ELSE w.startRow
ColAt(w, i) == IF w.direction = "horizontal" THEN w.startCol + i ELSE w.startCol

(* every cell of every run holds the word's letter at that offset *)
RunsHoldLetters(grid, placedWords) ==
  \A k \in 1..Len(placedWords) :
    \A i \in 0..(Len(placedWords[k].word) - 1) :
      Get(grid, RowAt(placedWords[k], i), ColAt(placedWords[k], i)) = placedWords[k].word[i + 1]

(* two placed words that share a coordinate have the same letter there *)
SharedCellsAgree(placedWords) ==
  \A k1, k2 \in 1..Len(placedWords) :
    \A i1 \in 0..(Len(placedWords[k1].word) - 1), i2 \in 0..(Len(placedWords[k2].word) - 1) :
      (RowAt(placedWords[k1], i1) = RowAt(placedWords[k2], i2)
         /\ ColAt(placedWords[k1], i1) = ColAt(placedWords[k2], i2))
        => placedWords[k1].word[i1 + 1] = placedWords[k2].word[i2 + 1]

ShareACell(w1, w2) ==
  \E i1 \in 0..(Len(w1.word) - 1), i2 \in 0..(Len(w2.word) - 1) :
     /\ RowAt(w1, i1) = RowAt(w2, i2)
     /\ ColAt(w1, i1) = ColAt(w2, i2)
     /\ w1.word[i1 + 1] = w2.word[i2 + 1]

(* C1: crossing consistency.  In every state of an attempt and in the returned
   result, every cell on a placed word's run holds that word's letter at that
   offset, and two placed words sharing a coordinate agree on its letter. *)
C1_CrossingConsistency ==
  /\ state # << >> =>
       /\ RunsHoldLetters(state[1].grid, state[1].placedWords)
       /\ SharedCellsAgree(state[1].placedWords)
  /\ returned # << >> =>
       /\ RunsHoldLetters(returned[1].grid, returned[1].placedWords)
       /\ SharedCellsAgree(returned[1].placedWords)

(* a result is returned in which two placed words share a cell *)
C1_Witness ==
  /\ returned # << >>
  /\ \E k1, k2 \in 1..Len(returned[1].placedWords) :
       k1 # k2 /\ ShareACell(returned[1].placedWords[k1], returned[1].placedWords[k2])

(* the cell is empty or off the grid *)
EmptyOrOff(grid, r, c) == Get(grid, r, c) \in {Null, Undefined, "TypeError"}

EndsAreFree(grid, placedWords) ==
  \A k \in 1..Len(placedWords) :
    LET w == placedWords[k]
    IN  IF w.direction = "horizontal"
        THEN EmptyOrOff(grid, w.startRow, w.startCol - 1) /\ EmptyOrOff(grid, w.endRow, w.endCol + 1)
        ELSE EmptyOrOff(grid, w.startRow - 1, w.startCol) /\ EmptyOrOff(grid, w.endRow + 1, w.endCol)

(* C2: no accidental extension.  In every state of an attempt and in the
   returned result, for every placed word the cell before its start and the
   cell after its end, in its own direction, is empty or off-grid. *)
C2_NoAccidentalExtension ==
  /\ state # << >> => EndsAreFree(state[1].grid, state[1].placedWords)
  /\ returned # << >> => EndsAreFree(returned[1].grid, returned[1].placedWords)

(* some input word passes the length filter *)
SomeWordSurvives ==
  \E k \in 1..Len(words) :
     /\ config.minWordLength <= Len(words[k])
     /\ Len(words[k]) <= Min(config.maxWordLength, config.maxGridSize)

(* C3: non-empty guarantee.  When some word survives the length filter and
   maxAttempts >= 1, the returned result has at least one placed word. *)
C3_NonEmptyGuarantee ==
  (pc = "returned" /\ SomeWordSurvives /\ config.maxAttempts >= 1)
    => Len(returned[1].placedWords) >= 1

(* every attempt failed, and the call still returned a placed word *)
C3_Witness ==
  /\ pc = "returned"
  /\ SomeWordSurvives
  /\ config.maxAttempts >= 1
  /\ attempt = config.maxAttempts
  /\ bestResult = << >>
  /\ Len(returned[1].placedWords) >= 1

(* C4: empty result.  When no input word survives the length filter the call
   returns grid = [], placedWords = [], wordsUsed = 0, gridSize 0x0 and
   totalIntersections = 0; and the returned grid is empty only in that case. *)
C4_EmptyResult ==
  pc = "returned" =>
    /\ ~SomeWordSurvives =>
         /\ returned[1].grid = << >>
         /\ returned[1].placedWords = << >>
         /\ returned[1].stats.wordsUsed = 0
         /\ returned[1].stats.gridSize = [width |-> 0, height |-> 0]
         /\ returned[1].stats.totalIntersections = 0
    /\ returned[1].grid = << >> => ~SomeWordSurvives

(* C5: failure containment.  No failure of an attempt escapes the call: the
   call never ends in an error, and when it ends it has returned a result. *)
C5_FailureContainment ==
  /\ pc # "error"
  /\ pc = "returned" => returned # << >>

(* the placement raised in every attempt, and the fallback returned a result *)
C5_Witness ==
  /\ pc = "returned"
  /\ words = FullWords
  /\ attempt = config.maxAttempts
  /\ attempt >= 2
  /\ bestResult = << >>
  /\ returned # << >>

GridWidth(grid) == IF Rows(grid) = 0 THEN 0 ELSE RowLen(grid, 0)

(* C6: bounding consistency.  In every returned result calculateMinGridSize
   over the placed words, and stats.gridSize, equal the dimensions of the
   grid, and stats.wordsUsed is the number of placed words. *)
C6_BoundingConsistency ==
  pc = "returned" =>
    LET r == returned[1]
        dims == [width |-> GridWidth(r.grid), height |-> Rows(r.grid)]
    IN  /\ calculateMinGridSize(r.placedWords) = dims
        /\ r.stats.gridSize = dims
        /\ r.stats.wordsUsed = Len(r.placedWords)

IsCatScenario ==
  /\ words = CatWords
  /\ config.wordCount = 3
  /\ config.maxGridSize = 5
  /\ config.validationLevel = "normal"

(* C7: words CAT, CAR, ART, wordCount 3, maxGridSize 5, level normal: every
   returned result has at least 2 placed words, a perpendicular pair crossing
   on a shared letter, and totalIntersections >= 1. *)
C7_CatCarArt ==
  (IsCatScenario /\ pc = "returned") =>
    LET r == returned[1]
    IN  /\ Len(r.placedWords) >= 2
        /\ \E k1, k2 \in 1..Len(r.placedWords) :
             /\ r.placedWords[k1].direction # r.placedWords[k2].direction
             /\ ShareACell(r.placedWords[k1], r.placedWords[k2])
        /\ r.stats.totalIntersections >= 1

(* the scenario returns a result that places only two of the three words *)
C7_Witness ==
  /\ IsCatScenario
  /\ pc = "returned"
  /\ Len(returned[1].placedWords) = 2

IsAbcScenario ==
  /\ words = AbcWords
  /\ config = clampMaxWordLength([DEFAULT_OPTIONS EXCEPT !.wordCount = 1])

(* C8: words ABC, wordCount 1, other options default: the result has exactly one
   placed word, ABC, starting at (0,0); the grid is its bounding box (1x3 when
   horizontal, 3x1 when vertical) filled with A, B, C; no intersections. *)
C8_SingleWord ==
  (IsAbcScenario /\ pc = "returned") =>
    LET r == returned[1]
    IN  /\ Len(r.placedWords) = 1
        /\ r.placedWords[1].word = <<"A", "B", "C">>
        /\ r.placedWords[1].startRow = 0
        /\ r.placedWords[1].startCol = 0
        /\ r.grid = IF r.placedWords[1].direction = "horizontal"
                    THEN [x \in 0..0 |-> [y \in 0..2 |-> <<"A", "B", "C">>[y + 1]]]
                    ELSE [x \in 0..2 |-> [y \in 0..0 |-> <<"A", "B", "C">>[x + 1]]]
        /\ r.stats.totalIntersections = 0

(* the scenario returns ABC placed vertically *)
C8_Witness ==
  /\ IsAbcScenario
  /\ pc = "returned"
  /\ returned[1].placedWords[1].direction = "vertical"
  /\ Rows(returned[1].grid) = 3

(* C9: trim idempotence.  For every grid g, trimGrid(trimGrid(g)) equals
   trimGrid(g) cell for cell. *)
C9_TrimIdempotent ==
  (pure # << >> /\ pure.stage = "twice") => pure.twice = pure.once

(* a grid with empty rows and columns around its letters was trimmed twice *)
C9_Witness ==
  /\ pure # << >>
  /\ pure.stage = "twice"
  /\ Rows(pure.once) > 0
  /\ Rows(pure.once) < Rows(pure.grid)
  /\ RowLen(pure.once, 0) < RowLen(pure.grid, 0)

(* C10: the target is an upper bound.  For wordCount >= 1 the selector hands an
   attempt at most wordCount words, no attempt holds more than wordCount
   placed words, and the returned result has wordsUsed <= wordCount. *)
C10_TargetIsUpperBound ==
  config.wordCount >= 1 =>
    /\ state # << >> =>
         /\ Len(state[1].placedWords) + Len(state[1].availableWords) <= config.wordCount
         /\ Len(state[1].placedWords) <= config.wordCount
    /\ returned # << >> =>
         /\ returned[1].stats.wordsUsed <= config.wordCount
         /\ Len(returned[1].placedWords) <= config.wordCount

(* more words survive the filter than wordCount, and a result with exactly
   wordCount words placed by an attempt is returned *)
C10_Witness ==
  /\ pc = "returned"
  /\ config.wordCount >= 2
  /\ Len(validWordsOf(words, config)) > config.wordCount
  /\ bestResult # << >>
  /\ returned[1].stats.wordsUsed = config.wordCount

WithinLengthBounds(placedWords) ==
  \A k \in 1..Len(placedWords) :
    /\ config.minWordLength <= Len(placedWords[k].word)
    /\ Len(placedWords[k].word) <= Min(config.maxWordLength, config.maxGridSize)

(* C11: length filter.  Every word placed in an attempt or in the returned
   result (the fallback's included) has a length between minWordLength and
   min(maxWordLength, maxGridSize). *)
C11_LengthFilter ==
  /\ state # << >> => WithinLengthBounds(state[1].placedWords)
  /\ returned # << >> => WithinLengthBounds(returned[1].placedWords)

(* an input word is too long for the filter, and a word of the largest length
   the filter lets through is in the returned result *)
C11_Witness ==
  /\ pc = "returned"
  /\ \E k \in 1..Len(words) :
       Len(words[k]) > Min(config.maxWordLength, config.maxGridSize)
  /\ \E k \in 1..Len(returned[1].placedWords) :
       Len(returned[1].placedWords[k].word) = Min(config.maxWordLength, config.maxGridSize)

ScoreOf(k) == calculateScore(executed[k][1])

(* attempt k gave a result that scores above every earlier result *)
Improves(k) ==
  /\ executed[k] # << >>
  /\ ScoreGreater(ScoreOf(k), ZeroScore)
  /\ \A m \in 1..(k - 1) : executed[m] # << >> => ScoreGreater(ScoreOf(k), ScoreOf(m))

ImprovesAndReaches(k) ==
  Improves(k) /\ Len(executed[k][1].placedWords) >= config.wordCount

(* C12: early termination.  An attempt that improves on the best score so far
   and placed at least wordCount words is the last attempt run, and its result
   is the one returned; after an attempt that does not do both, the loop goes
   on while attempts remain. *)
C12_EarlyTermination ==
  \A k \in 1..Len(executed) :
    /\ ImprovesAndReaches(k) =>
         /\ k = Len(executed)
         /\ pc \in {"after", "returned"}
         /\ pc = "returned" => returned = executed[k]
    /\ (~ImprovesAndReaches(k) /\ k = Len(executed) /\ k < config.maxAttempts) =>
         pc \in {"loop", "seed", "placing"}

(* the call returned the result of an attempt that met wordCount, with
   attempts left unrun *)
C12_Witness ==
  /\ pc = "returned"
  /\ Len(executed) >= 1
  /\ Len(executed) < config.maxAttempts
  /\ ImprovesAndReaches(Len(executed))

(* C13: best of N.  When some executed attempt placed a word, the returned
   result is the result of an executed attempt, no executed attempt scores
   higher, every earlier one scores lower, and stats.attempts is the 1-based
   number of that attempt. *)
C13_BestOfN ==
  (pc = "returned" /\ \E k \in 1..Len(executed) : executed[k] # << >>) =>
    LET n == returned[1].stats.attempts
    IN  /\ n \in 1..Len(executed)
        /\ executed[n] = returned
        /\ \A m \in 1..Len(executed) :
             executed[m] # << >> => ~ScoreGreater(ScoreOf(m), ScoreOf(n))
        /\ \A m \in 1..(n - 1) :
             executed[m] # << >> => ScoreGreater(ScoreOf(n), ScoreOf(m))

(* two attempts gave different grids with the same score, and the first one
   was returned *)
C13_Witness ==
  /\ pc = "returned"
  /\ Len(executed) = 2
  /\ executed[1] # << >>
  /\ executed[2] # << >>
  /\ executed[1][1].grid # executed[2][1].grid
  /\ ~ScoreGreater(ScoreOf(1), ScoreOf(2))
  /\ ~ScoreGreater(ScoreOf(2), ScoreOf(1))
  /\ returned = executed[1]

(* some cell of the run of the call lies outside the grid *)
RunLeavesGrid ==
  \E i \in 0..(Len(pure.word) - 1) :
     LET r == IF pure.direction = "vertical" THEN pure.startRow + i ELSE pure.startRow
         c == IF pure.direction = "horizontal" THEN pure.startCol + i ELSE pure.startCol
     IN  r \notin DOMAIN pure.grid \/ c \notin DOMAIN pure.grid[r]

(* C14: validator bounds rule.  Whenever a cell of the word's run lies outside
   the grid, a negative start row or column included, canPlaceWord returns
   false at every level and does not raise. *)
C14_BoundsRule ==
  (pure.stage = "validated" /\ RunLeavesGrid) =>
    /\ pure.strict = "false"
    /\ pure.normal = "false"
    /\ pure.lenient = "false"

(* the two cells beside (r, c), across the direction of the word *)
PerpNeighbours(r, c, direction) ==
  IF direction = "horizontal" THEN { <<r - 1, c>>, <<r + 1, c>> }
                              ELSE { <<r, c - 1>>, <<r, c + 1>> }

NonEmptyAt(grid, r, c) ==
  r \in DOMAIN grid /\ c \in DOMAIN grid[r] /\ grid[r][c] # Null

(* a recorded word of the other direction has this letter at (r, c) *)
RecordedCrossing(placedWords, r, c, letter, direction) ==
  \E k \in 1..Len(placedWords) :
     /\ placedWords[k].direction # direction
     /\ \E i \in 0..(Len(placedWords[k].word) - 1) :
          /\ RowAt(placedWords[k], i) = r
          /\ ColAt(placedWords[k], i) = c
          /\ placedWords[k].word[i + 1] = letter

(* the letter positions of the call that have a non-empty cell beside them *)
PositionsWithNeighbour ==
  { i \in 0..(Len(pure.word) - 1) :
      \E n \in PerpNeighbours(IF pure.direction = "vertical" THEN pure.startRow + i
                                                               ELSE pure.startRow,
                               IF pure.direction = "horizontal" THEN pure.startCol + i
                                                                 ELSE pure.startCol,
                               pure.direction) :
         NonEmptyAt(pure.grid, n[1], n[2]) }

AcceptedAtSomeLevel ==
  pure.stage = "validated" /\ "true" \in { pure.strict, pure.normal, pure.lenient }

(* C15: perpendicular-neighbour rule, as claimed.  At every level an accepted
   placement has, at each letter position with a non-empty cell directly beside
   it (above/below for horizontal, left/right for vertical), a recorded placed
   word of the other direction holding the identical letter there. *)
C15_NeighbourNeedsRecordedCrossing ==
  AcceptedAtSomeLevel =>
    \A i \in PositionsWithNeighbour :
      RecordedCrossing(pure.placedWords,
                       IF pure.direction = "vertical" THEN pure.startRow + i ELSE pure.startRow,
                       IF pure.direction = "horizontal" THEN pure.startCol + i ELSE pure.startCol,
                       upperWord(pure.word)[i + 1], pure.direction)

(* C15 amended: at every level an accepted placement has, at each letter
   position with a non-empty cell directly beside it, the identical letter
   already in the grid at that position; a neighbour beside a position that is
   still empty causes rejection. *)
C15_NeighbourNeedsLetterInGrid ==
  AcceptedAtSomeLevel =>
    \A i \in PositionsWithNeighbour :
      Get(pure.grid,
          IF pure.direction = "vertical" THEN pure.startRow + i ELSE pure.startRow,
          IF pure.direction = "horizontal" THEN pure.startCol + i ELSE pure.startCol)
        = upperWord(pure.word)[i + 1]

(* a placement through a letter that has a letter beside it was accepted *)
C15_Witness ==
  /\ pure.stage = "validated"
  /\ pure.normal = "true"
  /\ pure.strict = "true"
  /\ Len(pure.word) = 2
  /\ PositionsWithNeighbour # {}

(* C16: validation level ordering.  For every call canPlaceWord answers the
   same under normal and lenient, and a placement accepted under strict is
   accepted under normal. *)
C16_LevelOrdering ==
  pure.stage = "validated" =>
    /\ pure.normal = pure.lenient
    /\ pure.strict = "true" => pure.normal = "true"

(* the extra sweep of the strict level rejected a placement the other two
   levels accept *)
C16_Witness ==
  /\ pure.stage = "validated"
  /\ pure.strict = "false"
  /\ pure.normal = "true"
  /\ pure.lenient = "true"

(* the triples (placed word k, index i in the new word, index j in the placed
   word) whose letters are equal after upper-casing *)
MatchingTriples ==
  { t \in (1..Len(pure.placedWords)) \X (0..(Len(pure.newWord) - 1))
             \X (0..SetMax({0} \cup { Len(pure.placedWords[k].word) :
                                        k \in 1..Len(pure.placedWords) })) :
      /\ t[3] < Len(pure.placedWords[t[1]].word)
      /\ toUpperCase(pure.newWord[t[2] + 1])
           = toUpperCase(pure.placedWords[t[1]].word[t[3] + 1]) }

(* the candidate the claim gives for a triple *)
ClaimedCandidate(t) ==
  LET p == pure.placedWords[t[1]]
  IN  [ placedWord      |-> p,
        newWordIndex    |-> t[2],
        placedWordIndex |-> t[3],
        row       |-> IF p.direction = "horizontal" THEN p.startRow - t[2] ELSE p.startRow + t[3],
        col       |-> IF p.direction = "horizontal" THEN p.startCol + t[3] ELSE p.startCol - t[2],
        direction |-> IF p.direction = "horizontal" THEN "vertical" ELSE "horizontal" ]

(* the new word, run from the candidate's anchor *)
CandidateRun(x) ==
  [ word |-> upperWord(pure.newWord), startRow |-> x.row, startCol |-> x.col,
    direction |-> x.direction ]

(* C17: intersection finder.  findIntersections returns one candidate for each
   triple of a placed word and two indices with equal upper-case letters, and
   nothing else; a candidate is perpendicular to its placed word, its anchor is
   the claimed one, the cell at offset i of its run is the cell at offset j of
   the placed word's run, and anchors off the grid are not dropped. *)
C17_IntersectionFinder ==
  pure.stage = "found" =>
    /\ Len(pure.found) = Cardinality(MatchingTriples)
    /\ \A n \in 1..Len(pure.found) : \E t \in MatchingTriples : pure.found[n] = ClaimedCandidate(t)
    /\ \A t \in MatchingTriples :
         Cardinality({ n \in 1..Len(pure.found) : pure.found[n] = ClaimedCandidate(t) })
           = Cardinality({ u \in MatchingTriples : ClaimedCandidate(u) = ClaimedCandidate(t) })
    /\ \A n \in 1..Len(pure.found) :
         LET x == pure.found[n]
         IN  /\ x.direction # x.placedWord.direction
             /\ RowAt(CandidateRun(x), x.newWordIndex) = RowAt(x.placedWord, x.placedWordIndex)
             /\ ColAt(CandidateRun(x), x.newWordIndex) = ColAt(x.placedWord, x.placedWordIndex)

(* two placed words give several candidates, one of them anchored above or
   left of the grid *)
C17_Witness ==
  /\ pure.stage = "found"
  /\ Len(pure.placedWords) = 2
  /\ Len(pure.found) >= 3
  /\ \E n \in 1..Len(pure.found) : pure.found[n].row < 0 \/ pure.found[n].col < 0

(* the origin of the bounding box of the runs of the placed words *)
OriginRow(placedWords) == SetMin({ placedWords[k].startRow : k \in 1..Len(placedWords) })
OriginCol(placedWords) == SetMin({ placedWords[k].startCol : k \in 1..Len(placedWords) })

(* after is before, moved so that the bounding box starts at (0, 0) *)
TranslatedToOrigin(before, after) ==
  /\ Len(after) = Len(before)
  /\ \A k \in 1..Len(before) :
       /\ after[k].word = before[k].word
       /\ after[k].direction = before[k].direction
       /\ after[k].startRow = before[k].startRow - OriginRow(before)
       /\ after[k].endRow = before[k].endRow - OriginRow(before)
       /\ after[k].startCol = before[k].startCol - OriginCol(before)
       /\ after[k].endCol = before[k].endCol - OriginCol(before)

RunsInsideGrid(grid, placedWords) ==
  \A k \in 1..Len(placedWords) :
    \A i \in 0..(Len(placedWords[k].word) - 1) :
      /\ RowAt(placedWords[k], i) \in DOMAIN grid
      /\ ColAt(placedWords[k], i) \in DOMAIN grid[RowAt(placedWords[k], i)]

AttemptEnds == pc = "placing" /\ ~LoopCondition

(* C18: trimmer translation.  The result an attempt gives has, when its grid
   is not empty, each placed word with its text and direction and with start
   and end coordinates reduced by the origin of the bounding box; and in every
   returned result with a non-empty grid every run lies inside the grid, the
   grid holds the word's letters along it, and the smallest startRow and the
   smallest startCol are 0. *)
C18_TrimmerTranslation ==
  /\ AttemptEnds =>
       LET result == attemptResult(state[1])
       IN  Rows(result.grid) > 0 => TranslatedToOrigin(state[1].placedWords, result.placedWords)
  /\ (returned # << >> /\ Rows(returned[1].grid) > 0) =>
       /\ RunsInsideGrid(returned[1].grid, returned[1].placedWords)
       /\ RunsHoldLetters(returned[1].grid, returned[1].placedWords)
       /\ OriginRow(returned[1].placedWords) = 0
       /\ OriginCol(returned[1].placedWords) = 0

(* an attempt ends with three words whose bounding box starts away from row 0
   and from column 0 *)
C18_Witness ==
  /\ AttemptEnds
  /\ Len(state[1].placedWords) = 3
  /\ OriginRow(state[1].placedWords) > 0
  /\ OriginCol(state[1].placedWords) > 0
  /\ Rows(attemptResult(state[1]).grid) > 0

IsSquare(grid, size) ==
  /\ Rows(grid) = size
  /\ \A r \in DOMAIN grid : RowLen(grid, r) = size

(* C20: the grid stays N x N and all runs are in bounds.  In every state of an
   attempt the grid has maxGridSize rows of maxGridSize cells and the run of
   every placed word lies inside it, and no choice of the seed's anchor makes
   the seed placement fail. *)
C20_GridStaysSquare ==
  /\ state # << >> =>
       /\ IsSquare(state[1].grid, config.maxGridSize)
       /\ RunsInsideGrid(state[1].grid, state[1].placedWords)
       /\ \A k \in 1..Len(state[1].placedWords) :
            /\ state[1].placedWords[k].endRow < config.maxGridSize
            /\ state[1].placedWords[k].endCol < config.maxGridSize
  /\ pc = "seed" =>
       \A a \in firstWordAnchors(Head(state[1].availableWords), config.maxGridSize) :
          ~placeWordThrows(state[1].grid, Head(state[1].availableWords),
                           a.startRow, a.startCol, a.direction)

(* the coordinates two placed words both run over *)
CommonCells(w1, w2) ==
  { << RowAt(w1, i1), ColAt(w1, i1) >> : i1 \in 0..(Len(w1.word) - 1) }
    \cap { << RowAt(w2, i2), ColAt(w2, i2) >> : i2 \in 0..(Len(w2.word) - 1) }

(* C21: no parallel overlap.  In every state of an attempt, two placed words
   with the same direction have no cell in common: every cell shared by two
   placed words is a crossing of a horizontal and a vertical word. *)
C21_NoParallelOverlap ==
  state # << >> =>
    \A k1, k2 \in 1..Len(state[1].placedWords) :
      (k1 # k2 /\ CommonCells(state[1].placedWords[k1], state[1].placedWords[k2]) # {})
        => state[1].placedWords[k1].direction # state[1].placedWords[k2].direction

(* C22: per-word eviction budget.  Within one attempt a word is removed from
   the pool without being placed only after that same word has itself failed
   placement 5 times: the failures of other words do not count. *)
C22_PerWordEvictionBudget ==
  \A ownFailures \in failureLog.evicted : ownFailures >= evictAfterFailures

(* one run of the loop body of placeRemainingWords that does not raise *)
LoopIteration == pc = "placing" /\ pc' = "placing" /\ failureLog' # failureLog

(* lines 199-201 *)
PlacesAWord ==
  /\ wordsPlaced' = wordsPlaced + 1
  /\ Len(state'[1].placedWords) = Len(state[1].placedWords) + 1
  /\ Len(state'[1].availableWords) = Len(state[1].availableWords) - 1

(* consecutiveFailures++ of line 203, followed or not by the eviction of
   lines 206-209, which sets the counter back to 0 *)
CountsAFailure ==
  /\ wordsPlaced' = wordsPlaced
  /\ state'[1].placedWords = state[1].placedWords
  /\ \/ /\ consecutiveFailures' = consecutiveFailures + 1
        /\ state'[1].availableWords = state[1].availableWords
     \/ /\ consecutiveFailures + 1 >= evictAfterFailures
        /\ consecutiveFailures' = 0
        /\ Len(state'[1].availableWords) = Len(state[1].availableWords) - 1

(* the attempt leaves placeRemainingWords with a result *)
LoopEnds ==
  /\ pc = "placing"
  /\ pc' # "placing"
  /\ executed' = Append(executed, << attemptResult(state[1]) >>)

(* C23: attempt termination.  The loop of placeRemainingWords has run at most
   5 * (pool size at its entry) iterations in every state, so it ends under
   every sequence of draws; it runs on while the target count is unmet, the
   pool is non-empty and the failure cap is not hit, and ends only when one of
   the three fails; every iteration either places a word or counts a failure. *)
C23_AttemptTermination ==
  /\ [](pc = "placing" =>
          failureLog.iterations <= evictAfterFailures * failureLog.pool)
  /\ [][/\ LoopIteration =>
             /\ LoopCondition
             /\ failureLog'.iterations = failureLog.iterations + 1
             /\ PlacesAWord \/ CountsAFailure
        /\ LoopEnds =>
             \/ wordsPlaced >= maxWordsToPlace
             \/ Len(state[1].availableWords) = 0
             \/ consecutiveFailures >= maxConsecutiveFailures]_vars

(* an attempt ends after exactly 5 iterations for each of the two words of its
   pool, none of which was placed *)
C23_Witness ==
  /\ pc = "placing"
  /\ ~LoopCondition
  /\ failureLog.pool = 2
  /\ failureLog.iterations = evictAfterFailures * failureLog.pool
  /\ wordsPlaced = 0

(* the grid is cropped: it is empty, or its first and last row and its first
   and last column hold a non-null cell *)
IsCropped(grid) ==
  \/ Rows(grid) = 0
  \/ /\ \E c \in 0..(RowLen(grid, 0) - 1) : At(grid, 0, c) # Null
     /\ \E c \in 0..(RowLen(grid, Rows(grid) - 1) - 1) : At(grid, Rows(grid) - 1, c) # Null
     /\ \E r \in 0..(Rows(grid) - 1) : At(grid, r, 0) # Null
     /\ \E r \in 0..(Rows(grid) - 1) : At(grid, r, RowLen(grid, 0) - 1) # Null

(* the results of the executed attempts that are not the returned result *)
NotReturned ==
  { k \in 1..Len(executed) : executed[k] # << >> /\ executed[k] # returned }

(* C24, as stated: trimming happens once.  When generateCrossword has
   returned, an executed attempt whose result is not the returned one was never
   trimmed: its grid is still the maxGridSize x maxGridSize working grid. *)
C24_TrimOnlyTheReturned ==
  pc = "returned" =>
    \A k \in NotReturned : IsSquare(executed[k][1].grid, config.maxGridSize)

(* C24, amended: every attempt that finishes without raising is trimmed, once,
   before it is scored, whether it is returned or not: the result of every
   executed attempt holds a cropped grid on which the runs of its words lie,
   and the returned result is one of these results or the fallback's, itself
   cropped. *)
C24_EveryAttemptIsTrimmed ==
  /\ \A k \in 1..Len(executed) :
       executed[k] # << >> =>
         /\ IsCropped(executed[k][1].grid)
         /\ executed[k][1].grid = trimGrid(executed[k][1].grid)
         /\ RunsHoldLetters(executed[k][1].grid, executed[k][1].placedWords)
  /\ returned # << >> => IsCropped(returned[1].grid)

(* two attempts ran, both results are smaller than the working grid, and one of
   them is not the returned result *)
C24_Witness ==
  /\ pc = "returned"
  /\ Len(executed) = 2
  /\ NotReturned # {}
  /\ \A k \in 1..2 : /\ executed[k] # << >>
                     /\ Rows(executed[k][1].grid) \in 1..(config.maxGridSize - 1)

(* the coordinate lies on the run of a placed word *)
OnSomeRun(placedWords, r, c) ==
  \E k \in 1..Len(placedWords) :
    \E i \in 0..(Len(placedWords[k].word) - 1) :
       RowAt(placedWords[k], i) = r /\ ColAt(placedWords[k], i) = c

(* every cell of the grid that is not null lies on the run of a placed word *)
CellsAreOwned(grid, placedWords) ==
  \A r \in 0..(Rows(grid) - 1) :
    \A c \in 0..(RowLen(grid, r) - 1) :
       At(grid, r, c) # Null => OnSomeRun(placedWords, r, c)

(* C25: cell ownership.  In every state of an attempt and in the returned
   result, every non-empty cell of the grid lies on the run of at least one
   placed word. *)
C25_CellOwnership ==
  /\ state # << >> => CellsAreOwned(state[1].grid, state[1].placedWords)
  /\ returned # << >> => CellsAreOwned(returned[1].grid, returned[1].placedWords)

(* a letter of the grid: not null, not a hole, not off the grid *)
IsLetterAt(grid, r, c) == Get(grid, r, c) \notin {Null, Undefined, "TypeError"}

(* the maximal runs of two or more letters of the grid, each as
   [direction, startRow, startCol, length] *)
MaximalRuns(grid) ==
  { run \in [ direction : Directions,
              startRow : 0..(Rows(grid) - 1),
              startCol : 0..(Max(GridWidth(grid), Rows(grid))),
              length : 2..(Max(GridWidth(grid), Rows(grid)) + 1) ] :
      LET dr == IF run.direction = "vertical" THEN 1 ELSE 0
          dc == IF run.direction = "horizontal" THEN 1 ELSE 0
      IN  /\ \A i \in 0..(run.length - 1) :
               IsLetterAt(grid, run.startRow + i * dr, run.startCol + i * dc)
          /\ ~IsLetterAt(grid, run.startRow - dr, run.startCol - dc)
          /\ ~IsLetterAt(grid, run.startRow + run.length * dr,
                               run.startCol + run.length * dc) }

(* the run is the run of a placed word of that direction and spells it *)
IsPlacedRun(grid, placedWords, run) ==
  \E k \in 1..Len(placedWords) :
    /\ placedWords[k].direction = run.direction
    /\ placedWords[k].startRow = run.startRow
    /\ placedWords[k].startCol = run.startCol
    /\ Len(placedWords[k].word) = run.length
    /\ \A i \in 0..(run.length - 1) :
         Get(grid, RowAt(placedWords[k], i), ColAt(placedWords[k], i))
           = placedWords[k].word[i + 1]

(* C26: no accidental words.  In every state of an attempt, every maximal
   horizontal or vertical run of two or more consecutive letters of the grid
   is exactly the run of some placed word of that direction and spells it. *)
C26_NoAccidentalWords ==
  state # << >> =>
    \A run \in MaximalRuns(state[1].grid) :
       IsPlacedRun(state[1].grid, state[1].placedWords, run)

(* two placed words of different directions with a cell in common, on which
   they hold the same letter *)
CrossEachOther(w1, w2) == w1.direction # w2.direction /\ ShareACell(w1, w2)

(* the words reached from the words of `from' over at most n crossings *)
RECURSIVE ReachedByCrossings(_, _, _)
ReachedByCrossings(placedWords, from, n) ==
  IF n = 0 THEN from
  ELSE ReachedByCrossings(placedWords,
         from \cup { k \in 1..Len(placedWords) :
                       \E m \in from : CrossEachOther(placedWords[m], placedWords[k]) },
         n - 1)

(* the crossing graph of the placed words is connected *)
OneCrossingGraph(placedWords) ==
  Len(placedWords) > 0 =>
    ReachedByCrossings(placedWords, {1}, Len(placedWords)) = 1..Len(placedWords)

(* C27: connectedness.  In every state of an attempt every word placed after
   the seed crosses, perpendicularly and on a shared cell, at least one word
   placed before it; in the result of every executed attempt
   stats.totalIntersections >= stats.wordsUsed - 1 and the placed words form
   one connected crossing graph. *)
C27_Connectedness ==
  /\ state # << >> =>
       \A k \in 2..Len(state[1].placedWords) :
         \E m \in 1..(k - 1) :
            CrossEachOther(state[1].placedWords[m], state[1].placedWords[k])
  /\ \A k \in 1..Len(executed) :
       executed[k] # << >> =>
         /\ executed[k][1].stats.totalIntersections >= executed[k][1].stats.wordsUsed - 1
         /\ OneCrossingGraph(executed[k][1].placedWords)

(* an attempt gave three words with exactly two crossings, the third word not
   crossing the seed *)
C27_Witness ==
  /\ executed # << >>
  /\ executed[1] # << >>
  /\ executed[1][1].stats.wordsUsed = 3
  /\ executed[1][1].stats.totalIntersections = 2
  /\ ~CrossEachOther(executed[1][1].placedWords[1], executed[1][1].placedWords[3])

(* C28: strict equals normal inside the engine.  In every state of an attempt,
   for every word of the pool and every candidate tryPlaceWord hands to
   canPlaceWord, the outcome is the same at 'strict', 'normal' and 'lenient':
   tryPlaceWord has the same placements to choose from at every level, so that
   the level does not change the results an attempt can reach. *)
C28_StrictEqualsNormalInEngine ==
  pc = "placing" =>
    \A k \in 1..Len(state[1].availableWords) :
      LET st == state[1]
          word == st.availableWords[k]
          outcome(x, lv) == canPlaceWordOutcome(st.grid, word, x.row, x.col, x.direction,
                                                st.placedWords, lv)
      IN  \A x \in candidatesInBounds(st, word) :
             LET normal == outcome(x, "normal")
             IN  outcome(x, "strict") = normal /\ outcome(x, "lenient") = normal

(* a pool word has a candidate that the strict level accepts and that runs
   beside a letter of the grid: the sweep of the strict level looks the
   neighbour up in placedWords *)
C28_Witness ==
  /\ pc = "placing"
  /\ \E k \in 1..Len(state[1].availableWords) :
       LET st == state[1]
           word == st.availableWords[k]
       IN  \E x \in acceptedCandidates(st, word, "strict") :
             \E i \in 0..(Len(word) - 1) :
               \E n \in PerpNeighbours(IF x.direction = "vertical" THEN x.row + i ELSE x.row,
                                       IF x.direction = "horizontal" THEN x.col + i ELSE x.col,
                                       x.direction) :
                  NonEmptyAt(st.grid, n[1], n[2])

(* C29: failure counter bound.  At every evaluation of the loop condition of
   placeRemainingWords the consecutive-failure counter is between 0 and 4, and
   the loop is never left because the cap of 20 consecutive failures is
   reached: when it ends, the target count is met or the pool is empty. *)
C29_FailureCounterBound ==
  pc = "placing" =>
    /\ consecutiveFailures \in 0..(evictAfterFailures - 1)
    /\ consecutiveFailures < maxConsecutiveFailures
    /\ ~LoopCondition =>
         \/ wordsPlaced >= maxWordsToPlace
         \/ Len(state[1].availableWords) = 0

(* the loop condition is evaluated after four consecutive failures, and the
   loop goes on to a fifth *)
C29_Witness ==
  /\ pc = "placing"
  /\ LoopCondition
  /\ consecutiveFailures = evictAfterFailures - 1
  /\ \E k \in 1..Len(state[1].availableWords) :
       acceptedCandidates(state[1], state[1].availableWords[k], config.validationLevel) = {}

(* C30: word count is never traded away.  The returned result places at least
   as many words as every attempt executed during the call; in particular, if
   some executed attempt placed wordCount words, the returned result has
   wordCount words. *)
C30_WordCountNeverTradedAway ==
  pc = "returned" =>
    \A k \in 1..Len(executed) :
      executed[k] # << >> =>
        Len(returned[1].placedWords) >= Len(executed[k][1].placedWords)

====
